---- MODULE Spec2Model ----
(***************************************************************************)
(* A model of the kv storage engine (howenyap/kv): the memtable, the       *)
(* write-ahead log, the SST files, the manifest, flush, compaction, the    *)
(* negative cache and the startup (recovery) sequence.                     *)
(*                                                                         *)
(* Files are modelled by their content.  The WAL is a sequence of byte     *)
(* tokens, so that a torn record, a missing newline and a key cut in the   *)
(* middle of a multi-byte character are states of the model.  A put or a   *)
(* delete runs as a sequence of steps (pc), one per I/O call of the code,  *)
(* so that every crash point and every failing call is a state.            *)
(***************************************************************************)
EXTENDS Integers, Sequences, FiniteSets, TLC

(***************************************************************************)
(* Program constants (scaled down) and the bounds of the model.            *)
(***************************************************************************)
FLUSH_THRESHOLD == 2
COMPACTION_THRESHOLD == 3

\* Mutations (put/delete) a behaviour of each specification may start.
MaxOps == 4
MaxOpsRun == 6
MaxOpsIo == 3
MaxOpsRecover == 3
MaxOpsWal == 3
MaxOpsConc == 3
MaxOpsRunIo == 4
MaxOpsWalFail == 3
MaxOpsLock == 3
MaxTears == 1
\* Crashes/stops of the process in a behaviour of Spec.
MaxCrashes == 1
\* I/O calls that fail in a behaviour of SpecIo.
MaxFails == 1
\* Largest value written by a put (Value is u32; values are 1..MaxValue).
MaxValue == 2

\* Keys are UTF-8 byte strings: "a", "b" and "e-acute" (0xC3 0xA9).
Keys == {<<97>>, <<98>>, <<195, 169>>}
Values == 1..MaxValue

\* Option<T>: None is the empty sequence, Some(v) is <<v>>.
None == <<>>
Some(v) == <<v>>

\* Result<Option<Value>>.
Ok(v) == [ok |-> TRUE, val |-> v]
Err == [ok |-> FALSE, val |-> None]

(***************************************************************************)
(* Keys are ordered as Rust orders Strings: bytewise, lexicographically.   *)
(***************************************************************************)
RECURSIVE KeyLt(_, _)
KeyLt(k1, k2) ==
    IF k2 = <<>> THEN FALSE
    ELSE IF k1 = <<>> THEN TRUE
    ELSE IF Head(k1) # Head(k2) THEN Head(k1) < Head(k2)
    ELSE KeyLt(Tail(k1), Tail(k2))

(***************************************************************************)
(* SstEntry and its accessors.                                             *)
(***************************************************************************)
new_put(key, value) == [kind |-> "Put", key |-> key, value |-> Some(value)]
new_delete(key) == [kind |-> "Delete", key |-> key, value |-> None]
value(entry) == IF entry.kind = "Put" THEN entry.value ELSE None
is_delete(entry) == entry.kind = "Delete"

\* The serde form of an entry in an SST file: Put is {key, value}, Delete is
\* {key, deleted: true}.
SerializeEntry(entry) ==
    IF entry.kind = "Put"
    THEN [key |-> entry.key, value |-> entry.value, deleted |-> None]
    ELSE [key |-> entry.key, value |-> None, deleted |-> Some(TRUE)]

\* Deserialize for SstEntry: a value makes a Put, deleted: true a Delete,
\* anything else is an error.
DeserializeOk(raw) == raw.value # None \/ raw.deleted = Some(TRUE)
DeserializeEntry(raw) ==
    IF raw.value # None THEN new_put(raw.key, raw.value[1])
    ELSE new_delete(raw.key)

\* An SST file: the JSON array written by serde_json::to_writer.  A file that
\* was created but whose array was not written completely does not parse.
SstFile(entries) ==
    [complete |-> TRUE,
     records |-> [i \in 1..Len(entries) |-> SerializeEntry(entries[i])]]
EmptyFile == [complete |-> FALSE, records |-> <<>>]

sst_path(id) == <<"data/sst/sst-", id, ".json">>
\* trim_start_matches("data/sst/sst-").trim_end_matches(".json").parse()
ParseSstId(line) == line[2]

(***************************************************************************)
(* The WAL file, as byte tokens.                                           *)
(***************************************************************************)
NL == <<"nl", 10>>
LBrace == <<"lbrace", 0>>
RBrace == <<"rbrace", 0>>
HashTok(h) == <<"hash", h>>
KeyBytes(key) == [i \in 1..Len(key) |-> <<"byte", key[i]>>]

\* serde_json::to_string(&Entry): {"op":"put","key":..,"value":..} or
\* {"op":"delete","key":..}
EntryString(e) ==
    IF e.op = "put"
    THEN <<<<"op", 1>>>> \o KeyBytes(e.key) \o <<<<"value", e.value>>>>
    ELSE <<<<"op", 2>>>> \o KeyBytes(e.key)

Entry_put(key, v) == [op |-> "put", key |-> key, value |-> v]
Entry_delete(key) == [op |-> "delete", key |-> key, value |-> 0]
AllEntries ==
    {Entry_put(k, v) : k \in Keys, v \in Values} \cup {Entry_delete(k) : k \in Keys}

\* crc32fast::hash over the bytes of the serialised entry: a position-weighted
\* checksum of the tokens.
RECURSIVE Crc32(_, _)
Crc32(bytes, i) ==
    IF i > Len(bytes) THEN 0
    ELSE (i * (bytes[i][2] + 1) + 31 * Crc32(bytes, i + 1)) % 65521

\* Log::new + serde_json::to_string(&log): {"hash":h,"entry":e}
Log_new(e) == [hash |-> Crc32(EntryString(e), 1), entry |-> e]
LogString(log) ==
    <<LBrace, HashTok(log.hash)>> \o EntryString(log.entry) \o <<RBrace>>

\* The line writeln! appends for an entry.
WalLine(e) == LogString(Log_new(e)) \o <<NL>>

\* BufRead::lines: the lines of the file, the bytes after the last newline
\* included when there are any.
RECURSIVE SplitLines(_, _)
SplitLines(bytes, cur) ==
    IF bytes = <<>> THEN (IF cur = <<>> THEN <<>> ELSE <<cur>>)
    ELSE IF Head(bytes) = NL THEN <<cur>> \o SplitLines(Tail(bytes), <<>>)
    ELSE SplitLines(Tail(bytes), Append(cur, Head(bytes)))

\* read_line fails (InvalidData) on bytes that are not UTF-8: a lead byte of
\* a two-byte character needs its continuation byte.
IsContinuation(tok) == tok[1] = "byte" /\ tok[2] >= 128 /\ tok[2] <= 191
RECURSIVE Utf8Valid(_)
Utf8Valid(s) ==
    IF s = <<>> THEN TRUE
    ELSE IF Head(s)[1] # "byte" \/ Head(s)[2] < 128 THEN Utf8Valid(Tail(s))
    ELSE IF Head(s)[2] >= 194 /\ Head(s)[2] <= 223
         THEN Len(s) >= 2 /\ IsContinuation(s[2]) /\ Utf8Valid(Tail(Tail(s)))
    ELSE FALSE

\* serde_json::from_str::<Log>: the logs whose serialisation is the line.
ParseLog(line) ==
    IF Len(line) >= 2 /\ line[2][1] = "hash"
    THEN {log \in [hash : {line[2][2]}, entry : AllEntries] : LogString(log) = line}
    ELSE {}

\* Log::validate: parse, recompute the checksum of the entry, compare.
validate(line) ==
    LET logs == ParseLog(line) IN
    IF logs = {} THEN [ok |-> FALSE, entry |-> Entry_delete(<<>>)]
    ELSE LET log == CHOOSE l \in logs : TRUE IN
         IF log.hash # Crc32(EntryString(log.entry), 1)
         THEN [ok |-> FALSE, entry |-> Entry_delete(<<>>)]
         ELSE [ok |-> TRUE, entry |-> log.entry]

\* HashMap::insert
EmptyMap == [x \in {} |-> None]
Insert(map, key, entry) ==
    [x \in (DOMAIN map) \cup {key} |-> IF x = key THEN entry ELSE map[x]]

EntryToSst(e) == IF e.op = "put" THEN new_put(e.key, e.value) ELSE new_delete(e.key)

\* Wal::existing_entries: the loop over the lines from line i on.
RECURSIVE existing_entries(_, _, _)
existing_entries(lines, i, entries) ==
    IF i > Len(lines) THEN [ok |-> TRUE, entries |-> entries]
    ELSE IF ~Utf8Valid(lines[i]) THEN [ok |-> FALSE, entries |-> EmptyMap]
    ELSE IF lines[i] = <<>> THEN existing_entries(lines, i + 1, entries)
    ELSE LET v == validate(lines[i]) IN
         IF ~v.ok THEN [ok |-> TRUE, entries |-> entries]
         ELSE existing_entries(lines, i + 1,
                               Insert(entries, v.entry.key, EntryToSst(v.entry)))

WalReplay(file) == existing_entries(SplitLines(file, <<>>), 1, EmptyMap)

(***************************************************************************)
(* State.                                                                  *)
(***************************************************************************)
VARIABLES
    \* the process: TRUE between a successful startup() and the next crash
    up,
    \* MemTable (memory)
    requests, manifest_cache, negative_cache, updates_since_compaction,
    \* files: data/wal/wal.db, data/sst/manifest.txt, data/sst/manifest.tmp,
    \* data/sst/*.json
    wal, manifest, manifest_tmp, ssts,
    \* TRUE when the SST directory was fsynced after its last change
    dir_synced,
    \* the put/delete holding the write lock: its position, its arguments and
    \* the local variables of try_flush / compact_sst
    pc, cur, loc,
    \* the gets holding the read lock
    rd,
    \* history: the outcome of the last acknowledged mutation of each key, the
    \* outcomes of the mutations of it that were started and not acknowledged
    \* since, the keys whose last acknowledged mutation is not yet flushed, the
    \* keys whose last acknowledged mutation returned in the current run of the
    \* process, the results of get at the last stop of the process, and what
    \* the last startup() did
    last_ack, unacked, wal_acked, run_acked, snap, boot,
    \* what the behaviour may still do
    budget

vars ==
    <<up, requests, manifest_cache, negative_cache, updates_since_compaction,
      wal, manifest, manifest_tmp, ssts, dir_synced, pc, cur, loc, rd,
      last_ack, unacked, wal_acked, run_acked, snap, boot, budget>>

mem_vars == <<requests, manifest_cache, negative_cache, updates_since_compaction>>
disk_vars == <<wal, manifest, manifest_tmp, ssts, dir_synced>>
hist_vars == <<last_ack, unacked, wal_acked, run_acked, snap, boot>>

NoOp == [kind |-> "none", key |-> <<>>, value |-> 0]
NoSnap == [valid |-> FALSE, results |-> [k \in Keys |-> Ok(None)]]
\* loc.compacting, loc.before and loc.tombstones are history: whether
\* compact_sst is merging, the results of get when it began, and the keys
\* whose newest entry in the SSTs was then a tombstone.
NoLoc ==
    [sst_path |-> None, requests |-> <<>>, chunks |-> <<>>,
     new_sst_paths |-> <<>>, removed |-> 0,
     compacting |-> FALSE, before |-> NoSnap.results, tombstones |-> {}]
NoBoot == [status |-> "none", before |-> {}]

Readers == {1, 2}
NoGet == [pc |-> "idle", key |-> <<>>, result |-> Ok(None)]

Range(f) == {f[i] : i \in DOMAIN f}
Perms(S) ==
    {p \in [1..Cardinality(S) -> S] : \A i, j \in 1..Cardinality(S) : p[i] = p[j] => i = j}

(***************************************************************************)
(* Reading SST files.                                                      *)
(***************************************************************************)
\* fs::File::open + serde_json::from_reader::<Vec<SstEntry>>
LoadOk(files, path) ==
    /\ path \in DOMAIN files
    /\ files[path].complete
    /\ \A i \in 1..Len(files[path].records) : DeserializeOk(files[path].records[i])
Load(files, path) ==
    [i \in 1..Len(files[path].records) |-> DeserializeEntry(files[path].records[i])]

\* MemTable::search_sst, from position i of the list down to 1 (.iter().rev())
RECURSIVE search_sst(_, _, _, _)
search_sst(cache, files, key, i) ==
    IF i = 0 THEN Ok(None)
    ELSE IF ~LoadOk(files, cache[i]) THEN Err
    ELSE LET sst == Load(files, cache[i])
             hits == {j \in 1..Len(sst) : sst[j].key = key}
         IN IF hits # {}
            THEN Ok(value(sst[CHOOSE j \in hits : \A h \in hits : j <= h]))
            ELSE search_sst(cache, files, key, i - 1)

\* get scanning the SSTs oldest first (search_sst without .rev()).
get_oldest_first(reqs, neg, cache, files, key) ==
    IF key \in DOMAIN reqs THEN Ok(value(reqs[key]))
    ELSE IF key \in neg THEN Ok(None)
    ELSE search_sst([i \in 1..Len(cache) |-> cache[Len(cache) + 1 - i]], files, key,
                    Len(cache))

\* MemTable::get, as a function of the state it reads.
get(reqs, neg, cache, files, key) ==
    IF key \in DOMAIN reqs THEN Ok(value(reqs[key]))
    ELSE IF key \in neg THEN Ok(None)
    ELSE search_sst(cache, files, key, Len(cache))

GetResult(key) == get(requests, negative_cache, manifest_cache, ssts, key)

(***************************************************************************)
(* Init: nothing on disk, the process not yet started.                     *)
(***************************************************************************)
InitState ==
    /\ up = FALSE
    /\ requests = EmptyMap
    /\ manifest_cache = <<>>
    /\ negative_cache = {}
    /\ updates_since_compaction = 0
    /\ wal = <<>>
    /\ manifest = <<>>
    /\ manifest_tmp = None
    /\ ssts = EmptyMap
    /\ dir_synced = TRUE
    /\ pc = "idle"
    /\ cur = NoOp
    /\ loc = NoLoc
    /\ rd = [r \in Readers |-> NoGet]
    /\ last_ack = [k \in Keys |-> None]
    /\ unacked = [k \in Keys |-> {}]
    /\ wal_acked = {}
    /\ run_acked = {}
    /\ snap = NoSnap
    /\ boot = NoBoot

Init ==
    /\ InitState
    /\ budget = [ops |-> MaxOps, crashes |-> MaxCrashes, fails |-> 0, tears |-> 0]

(***************************************************************************)
(* MemTable::startup (server.rs: AppState::startup, called once by         *)
(* Server::router before serving).  The manifest lines are collected in a  *)
(* HashSet, whose iteration order is unspecified: order is any order of    *)
(* the set.  When replaying the WAL fails, startup returns the error and   *)
(* the process exits.                                                      *)
(***************************************************************************)
\* Variant: startup without the removal of the unreferenced files (lines 62-64).
startup_keep_orphans(order) ==
    LET manifest_lines == Range(manifest)
        manifest_files == DOMAIN ssts
        replay == WalReplay(wal)
    IN /\ ~up
       /\ order \in Perms(manifest_lines)
       /\ ssts' = ssts
       /\ IF replay.ok
          THEN /\ up' = TRUE
               /\ manifest_cache' = order
               /\ requests' = replay.entries
          ELSE /\ up' = FALSE
               /\ manifest_cache' = <<>>
               /\ requests' = EmptyMap
       /\ boot' = [status |-> IF replay.ok THEN "ok" ELSE "failed",
                    before |-> manifest_files]
       /\ UNCHANGED <<negative_cache, updates_since_compaction, wal, manifest,
                      manifest_tmp, dir_synced, pc, cur, loc, rd, last_ack, unacked,
                      wal_acked, run_acked, snap, budget>>

startup(order) ==
    LET manifest_lines == Range(manifest)
        manifest_files == DOMAIN ssts
        replay == WalReplay(wal)
    IN /\ ~up
       /\ order \in Perms(manifest_lines)
       /\ ssts' = [path \in manifest_files \cap manifest_lines |-> ssts[path]]
       /\ IF replay.ok
          THEN /\ up' = TRUE
               /\ manifest_cache' = order
               /\ requests' = replay.entries
          ELSE /\ up' = FALSE
               /\ manifest_cache' = <<>>
               /\ requests' = EmptyMap
       /\ boot' = [status |-> IF replay.ok THEN "ok" ELSE "failed",
                    before |-> manifest_files]
       /\ UNCHANGED <<negative_cache, updates_since_compaction, wal, manifest,
                      manifest_tmp, dir_synced, pc, cur, loc, rd, last_ack, unacked,
                      wal_acked, run_acked, snap, budget>>

Startup == \E order \in Perms(Range(manifest)) : startup(order)

(***************************************************************************)
(* The process stops or is killed (tests/common/mod.rs: handle.abort()):   *)
(* memory is lost, the files stay.  A mutation in progress is not          *)
(* acknowledged; its record may already be in the WAL.                     *)
(***************************************************************************)
Abandon ==
    IF cur.kind = "none" THEN unacked
    ELSE [unacked EXCEPT ![cur.key] =
             @ \cup {IF cur.kind = "put" THEN Some(cur.value) ELSE None}]

Crash ==
    /\ up
    /\ budget.crashes > 0
    /\ budget' = [budget EXCEPT !.crashes = @ - 1]
    /\ up' = FALSE
    /\ requests' = EmptyMap
    /\ manifest_cache' = <<>>
    /\ negative_cache' = {}
    /\ updates_since_compaction' = 0
    /\ pc' = "idle"
    /\ cur' = NoOp
    /\ loc' = NoLoc
    /\ rd' = [r \in Readers |-> NoGet]
    /\ unacked' = Abandon
    /\ snap' = IF pc = "idle" /\ \A r \in Readers : rd[r] = NoGet
               THEN [valid |-> TRUE, results |-> [k \in Keys |-> GetResult(k)]]
               ELSE NoSnap
    /\ boot' = NoBoot
    /\ run_acked' = {}
    /\ UNCHANGED <<disk_vars, last_ack, wal_acked>>

(***************************************************************************)
(* put / delete: WAL append, memtable insert.                              *)
(***************************************************************************)
Outcome(op) == IF op.kind = "put" THEN Some(op.value) ELSE None

WriteLockFree == pc = "idle" /\ \A r \in Readers : rd[r].pc = "idle"

\* The operation returns an error (the ? operator): the lock is released,
\* nothing is undone and the mutation is not acknowledged.
ReturnErr ==
    /\ pc' = "idle"
    /\ cur' = NoOp
    /\ loc' = NoLoc
    /\ unacked' = Abandon
    /\ UNCHANGED <<last_ack, wal_acked, run_acked, snap, boot>>

\* routes.rs put_key -> MemTable::put, lines 80-83: Wal::put (open for append,
\* writeln!, flush, sync_all), then HashMap::insert.
put(key, v) ==
    /\ up /\ WriteLockFree
    /\ budget.ops > 0
    /\ budget' = [budget EXCEPT !.ops = @ - 1]
    /\ wal' = wal \o WalLine(Entry_put(key, v))
    /\ requests' = Insert(requests, key, new_put(key, v))
    /\ cur' = [kind |-> "put", key |-> key, value |-> v]
    /\ pc' = "try_flush"
    /\ snap' = NoSnap
    /\ boot' = NoBoot
    /\ UNCHANGED <<up, manifest_cache, negative_cache, updates_since_compaction,
                   manifest, manifest_tmp, ssts, dir_synced, loc, rd, last_ack, unacked,
                   wal_acked, run_acked>>

\* routes.rs delete_key -> MemTable::delete, lines 113-116.
delete(key) ==
    /\ up /\ WriteLockFree
    /\ budget.ops > 0
    /\ budget' = [budget EXCEPT !.ops = @ - 1]
    /\ wal' = wal \o WalLine(Entry_delete(key))
    /\ requests' = Insert(requests, key, new_delete(key))
    /\ cur' = [kind |-> "delete", key |-> key, value |-> 0]
    /\ pc' = "try_flush"
    /\ snap' = NoSnap
    /\ boot' = NoBoot
    /\ UNCHANGED <<up, manifest_cache, negative_cache, updates_since_compaction,
                   manifest, manifest_tmp, ssts, dir_synced, loc, rd, last_ack, unacked,
                   wal_acked, run_acked>>

Put == \E key \in Keys, v \in Values : put(key, v)
Delete == \E key \in Keys : delete(key)

(***************************************************************************)
(* try_flush                                                               *)
(***************************************************************************)
\* MemTable::next_sst_id: the id in the LAST path of manifest_cache, plus one.
next_sst_id(cache) ==
    (IF cache = <<>> THEN 0 ELSE ParseSstId(cache[Len(cache)])) + 1

\* requests.drain() collected and sorted by key: the keys ascending.
RECURSIVE SortedEntries(_)
SortedEntries(map) ==
    IF DOMAIN map = {} THEN <<>>
    ELSE LET k == CHOOSE x \in DOMAIN map : \A y \in (DOMAIN map) \ {x} : KeyLt(x, y)
         IN <<map[k]>> \o SortedEntries([x \in (DOMAIN map) \ {k} |-> map[x]])

FlushNeeded == Cardinality(DOMAIN requests) >= FLUSH_THRESHOLD

\* lines 143-150: the threshold test, File::create of the new SST (which
\* truncates a file of that name) and the drain of the memtable.
TryFlush ==
    /\ pc = "try_flush"
    /\ IF ~FlushNeeded
       THEN /\ pc' = "try_compact"
            /\ UNCHANGED <<requests, ssts, dir_synced, loc>>
       ELSE LET path == sst_path(next_sst_id(manifest_cache)) IN
            /\ ssts' = Insert(ssts, path, EmptyFile)
            /\ dir_synced' = FALSE
            /\ loc' = [loc EXCEPT !.sst_path = Some(path),
                                  !.requests = SortedEntries(requests)]
            /\ requests' = EmptyMap
            /\ pc' = "flush_write"
    /\ UNCHANGED <<up, manifest_cache, negative_cache, updates_since_compaction,
                   wal, manifest, manifest_tmp, cur, rd, hist_vars, budget>>

\* lines 153-155: serde_json::to_writer, flush, sync_all.
FlushWrite ==
    /\ pc = "flush_write"
    /\ ssts' = [ssts EXCEPT ![loc.sst_path[1]] = SstFile(loc.requests)]
    /\ pc' = "flush_tmp_open"
    /\ UNCHANGED <<up, mem_vars, wal, manifest, manifest_tmp, dir_synced, cur, loc,
                   rd, hist_vars, budget>>

\* lines 157-161: manifest.tmp opened with create + truncate.
FlushTmpOpen ==
    /\ pc = "flush_tmp_open"
    /\ manifest_tmp' = Some(<<>>)
    /\ pc' = "flush_tmp_write"
    /\ UNCHANGED <<up, mem_vars, wal, manifest, ssts, dir_synced, cur, loc, rd,
                   hist_vars, budget>>

\* Variant: the new list written to manifest.txt itself instead of manifest.tmp.
FlushTmpWrite_in_place ==
    /\ pc = "flush_tmp_write"
    /\ manifest' = manifest \o <<loc.sst_path[1]>>
    /\ pc' = "flush_rename"
    /\ UNCHANGED <<up, mem_vars, wal, manifest_tmp, ssts, dir_synced, cur, loc, rd,
                   hist_vars, budget>>

\* lines 163-170: the on-disk manifest read, its lines and the new path
\* written to manifest.tmp, flush, sync_all.
FlushTmpWrite ==
    /\ pc = "flush_tmp_write"
    /\ manifest_tmp' = Some(manifest \o <<loc.sst_path[1]>>)
    /\ pc' = "flush_rename"
    /\ UNCHANGED <<up, mem_vars, wal, manifest, ssts, dir_synced, cur, loc, rd,
                   hist_vars, budget>>

\* line 172: fs::rename(manifest.tmp, manifest.txt)
FlushRename ==
    /\ pc = "flush_rename"
    /\ manifest' = manifest_tmp[1]
    /\ manifest_tmp' = None
    /\ dir_synced' = FALSE
    /\ pc' = "flush_dir_sync"
    /\ UNCHANGED <<up, mem_vars, wal, ssts, cur, loc, rd, hist_vars, budget>>

\* lines 174-175: the directory opened and fsynced.
FlushDirSync ==
    /\ pc = "flush_dir_sync"
    /\ dir_synced' = TRUE
    /\ pc' = "flush_wal_reset"
    /\ UNCHANGED <<up, mem_vars, wal, manifest, manifest_tmp, ssts, cur, loc, rd,
                   hist_vars, budget>>

\* Variant: the flush ending without Wal::reset.
FlushWalReset_keep_wal ==
    /\ pc = "flush_wal_reset"
    /\ wal' = wal
    /\ manifest_cache' = Append(manifest_cache, loc.sst_path[1])
    /\ pc' = "try_compact"
    /\ wal_acked' = {}
    /\ run_acked' = run_acked
    /\ UNCHANGED <<up, requests, negative_cache, updates_since_compaction, manifest,
                   manifest_tmp, ssts, dir_synced, cur, loc, rd, last_ack, unacked,
                   snap, boot, budget>>

\* lines 177-179: Wal::reset (truncate), then manifest_cache.push.
FlushWalReset ==
    /\ pc = "flush_wal_reset"
    /\ wal' = <<>>
    /\ manifest_cache' = Append(manifest_cache, loc.sst_path[1])
    /\ pc' = "try_compact"
    /\ wal_acked' = {}
    /\ run_acked' = run_acked
    /\ UNCHANGED <<up, requests, negative_cache, updates_since_compaction, manifest,
                   manifest_tmp, ssts, dir_synced, cur, loc, rd, last_ack, unacked,
                   snap, boot, budget>>

(***************************************************************************)
(* try_compact / compact_sst                                               *)
(***************************************************************************)
HeapItem_new(key, sst_file_index, sst_position_index) ==
    [key |-> key, sst_file_index |-> sst_file_index,
     sst_position_index |-> sst_position_index]

\* Variant: among equal keys the item of the lower sst_file_index is greater.
HeapItem_lt_oldest_first(a, b) ==
    IF a.key = b.key
    THEN \/ a.sst_file_index > b.sst_file_index
         \/ /\ a.sst_file_index = b.sst_file_index
            /\ a.sst_position_index < b.sst_position_index
    ELSE KeyLt(b.key, a.key)

\* Ord for HeapItem: a < b.  Keys compare reversed; equal keys compare by
\* sst_file_index, then by sst_position_index.
HeapItem_lt(a, b) ==
    IF a.key = b.key
    THEN \/ a.sst_file_index < b.sst_file_index
         \/ /\ a.sst_file_index = b.sst_file_index
            /\ a.sst_position_index < b.sst_position_index
    ELSE KeyLt(b.key, a.key)

\* BinaryHeap::pop / peek: the greatest item.
HeapTop(heap) == CHOOSE x \in heap : \A y \in heap \ {x} : HeapItem_lt(y, x)

\* Variant of the merge loop: the output buffer closed one entry late.
RECURSIVE compact_loop_late_split(_, _, _, _)
compact_loop_late_split(lsm_tree, heap, current_entries, out) ==
    IF heap = {}
    THEN (IF current_entries # <<>> THEN Append(out, current_entries) ELSE out)
    ELSE LET item == HeapTop(heap)
             drained == {x \in heap : x.key = item.key}
             newest_entry == lsm_tree[item.sst_file_index][item.sst_position_index]
             successors ==
                 {HeapItem_new(lsm_tree[x.sst_file_index][x.sst_position_index + 1].key,
                               x.sst_file_index, x.sst_position_index + 1) :
                    x \in {y \in drained :
                             y.sst_position_index + 1 <= Len(lsm_tree[y.sst_file_index])}}
             heap2 == (heap \ drained) \cup successors
             kept == IF is_delete(newest_entry) THEN current_entries
                     ELSE Append(current_entries, newest_entry)
         IN IF ~is_delete(newest_entry) /\ Len(kept) > FLUSH_THRESHOLD
            THEN compact_loop_late_split(lsm_tree, heap2, <<>>, Append(out, kept))
            ELSE compact_loop_late_split(lsm_tree, heap2, kept, out)

\* The merge loop of compact_sst (lines 227-274): the entries of every output
\* SST, in the order the SSTs are written.
RECURSIVE compact_loop(_, _, _, _)
compact_loop(lsm_tree, heap, current_entries, out) ==
    IF heap = {}
    THEN (IF current_entries # <<>> THEN Append(out, current_entries) ELSE out)
    ELSE LET item == HeapTop(heap)
             drained == {x \in heap : x.key = item.key}
             newest_entry == lsm_tree[item.sst_file_index][item.sst_position_index]
             successors ==
                 {HeapItem_new(lsm_tree[x.sst_file_index][x.sst_position_index + 1].key,
                               x.sst_file_index, x.sst_position_index + 1) :
                    x \in {y \in drained :
                             y.sst_position_index + 1 <= Len(lsm_tree[y.sst_file_index])}}
             heap2 == (heap \ drained) \cup successors
             kept == IF is_delete(newest_entry) THEN current_entries
                     ELSE Append(current_entries, newest_entry)
         IN IF ~is_delete(newest_entry) /\ Len(kept) >= FLUSH_THRESHOLD
            THEN compact_loop(lsm_tree, heap2, <<>>, Append(out, kept))
            ELSE compact_loop(lsm_tree, heap2, kept, out)

\* lines 202-221: every SST of manifest_cache loaded, the heap seeded with
\* the first entry of each non-empty one.
LsmTree(cache, files) == [i \in 1..Len(cache) |-> Load(files, cache[i])]
SeedHeap(lsm_tree) ==
    {HeapItem_new(lsm_tree[i][1].key, i, 1) :
       i \in {j \in 1..Len(lsm_tree) : Len(lsm_tree[j]) > 0}}
CompactOutput(cache, files) ==
    LET lsm_tree == LsmTree(cache, files)
    IN compact_loop(lsm_tree, SeedHeap(lsm_tree), <<>>, <<>>)

CompactionDue == updates_since_compaction + 1 >= COMPACTION_THRESHOLD

\* The keys whose newest entry in the SSTs of the manifest (last line newest)
\* is a tombstone.
NewestInManifest(key) ==
    {i \in 1..Len(manifest) :
        /\ LoadOk(ssts, manifest[i])
        /\ \E j \in 1..Len(ssts[manifest[i]].records) :
               ssts[manifest[i]].records[j].key = key
        /\ \A h \in (i + 1)..Len(manifest) :
               LoadOk(ssts, manifest[h]) =>
                   \A j \in 1..Len(ssts[manifest[h]].records) :
                       ssts[manifest[h]].records[j].key # key}
Tombstoned ==
    {key \in Keys :
        \E i \in NewestInManifest(key) :
            \E j \in 1..Len(ssts[manifest[i]].records) :
                /\ ssts[manifest[i]].records[j].key = key
                /\ ssts[manifest[i]].records[j].deleted = Some(TRUE)}

\* try_compact (lines 185-189) and the start of compact_sst (lines 198-225).
TryCompact ==
    /\ pc = "try_compact"
    /\ IF ~CompactionDue
       THEN /\ updates_since_compaction' = updates_since_compaction + 1
            /\ pc' = "finish"
            /\ UNCHANGED <<cur, loc, hist_vars>>
       ELSE IF manifest_cache = <<>>
       THEN /\ updates_since_compaction' = 0
            /\ pc' = "finish"
            /\ UNCHANGED <<cur, loc, hist_vars>>
       ELSE IF \E i \in 1..Len(manifest_cache) : ~LoadOk(ssts, manifest_cache[i])
       THEN /\ updates_since_compaction' = updates_since_compaction + 1
            /\ ReturnErr
       ELSE LET chunks == CompactOutput(manifest_cache, ssts) IN
            /\ updates_since_compaction' = updates_since_compaction + 1
            /\ loc' = [loc EXCEPT !.chunks = chunks, !.new_sst_paths = <<>>,
                                  !.removed = 0, !.compacting = TRUE,
                                  !.before = [k \in Keys |-> GetResult(k)],
                                  !.tombstones = Tombstoned]
            /\ pc' = IF chunks = <<>> THEN "compact_tmp_open" ELSE "compact_create"
            /\ UNCHANGED <<cur, hist_vars>>
    /\ UNCHANGED <<up, requests, manifest_cache, negative_cache, disk_vars, rd, budget>>

\* The path of the output SST being written: next_id counts up from
\* next_sst_id() (lines 225, 244-245, 271).
CompactPath == sst_path(next_sst_id(manifest_cache) + Len(loc.new_sst_paths))

\* write_sst, line 292: File::create.
CompactCreate ==
    /\ pc = "compact_create"
    /\ ssts' = Insert(ssts, CompactPath, EmptyFile)
    /\ dir_synced' = FALSE
    /\ pc' = "compact_write"
    /\ UNCHANGED <<up, mem_vars, wal, manifest, manifest_tmp, cur, loc, rd,
                   hist_vars, budget>>

\* write_sst, lines 295-301: to_writer, flush, sync_all, directory fsync; then
\* new_sst_paths.push.
CompactWrite ==
    /\ pc = "compact_write"
    /\ ssts' = [ssts EXCEPT ![CompactPath] =
                   SstFile(loc.chunks[Len(loc.new_sst_paths) + 1])]
    /\ dir_synced' = TRUE
    /\ loc' = [loc EXCEPT !.new_sst_paths = Append(@, CompactPath)]
    /\ pc' = IF Len(loc.new_sst_paths) + 1 < Len(loc.chunks)
             THEN "compact_create" ELSE "compact_tmp_open"
    /\ UNCHANGED <<up, mem_vars, wal, manifest, manifest_tmp, cur, rd, hist_vars, budget>>

\* update_manifest, lines 307-311.
CompactTmpOpen ==
    /\ pc = "compact_tmp_open"
    /\ manifest_tmp' = Some(<<>>)
    /\ pc' = "compact_tmp_write"
    /\ UNCHANGED <<up, mem_vars, wal, manifest, ssts, dir_synced, cur, loc, rd,
                   hist_vars, budget>>

\* update_manifest, lines 314-320.
CompactTmpWrite ==
    /\ pc = "compact_tmp_write"
    /\ manifest_tmp' = Some(loc.new_sst_paths)
    /\ pc' = "compact_rename"
    /\ UNCHANGED <<up, mem_vars, wal, manifest, ssts, dir_synced, cur, loc, rd,
                   hist_vars, budget>>

\* update_manifest, line 323.
CompactRename ==
    /\ pc = "compact_rename"
    /\ manifest' = manifest_tmp[1]
    /\ manifest_tmp' = None
    /\ dir_synced' = FALSE
    /\ pc' = "compact_dir_sync"
    /\ UNCHANGED <<up, mem_vars, wal, ssts, cur, loc, rd, hist_vars, budget>>

\* update_manifest, lines 326-327.
CompactDirSync ==
    /\ pc = "compact_dir_sync"
    /\ dir_synced' = TRUE
    /\ pc' = "compact_remove"
    /\ UNCHANGED <<up, mem_vars, wal, manifest, manifest_tmp, ssts, cur, loc, rd,
                   hist_vars, budget>>

\* lines 278-282 and 192: the old SST files removed one per step
\* (fs::remove_file fails on a file that is not there), then manifest_cache
\* replaced and the counter reset.
CompactRemove ==
    /\ pc = "compact_remove"
    /\ IF loc.removed = Len(manifest_cache)
       THEN /\ manifest_cache' = loc.new_sst_paths
            /\ updates_since_compaction' = 0
            /\ pc' = "finish"
            /\ UNCHANGED <<ssts, dir_synced, cur, loc, hist_vars>>
       ELSE LET old_sst_file == manifest_cache[loc.removed + 1] IN
            IF old_sst_file \notin DOMAIN ssts
            THEN /\ ReturnErr
                 /\ UNCHANGED <<manifest_cache, updates_since_compaction, ssts, dir_synced>>
            ELSE /\ ssts' = [path \in (DOMAIN ssts) \ {old_sst_file} |-> ssts[path]]
                 /\ dir_synced' = FALSE
                 /\ loc' = [loc EXCEPT !.removed = @ + 1]
                 /\ UNCHANGED <<manifest_cache, updates_since_compaction, pc, cur,
                                hist_vars>>
    /\ UNCHANGED <<up, requests, negative_cache, wal, manifest, manifest_tmp, rd, budget>>

\* Variant: put returning without negative_cache.remove (line 87).
Finish_keep_negative ==
    /\ pc = "finish"
    /\ negative_cache' = IF cur.kind = "put" THEN negative_cache
                         ELSE negative_cache \cup {cur.key}
    /\ last_ack' = [last_ack EXCEPT ![cur.key] = Outcome(cur)]
    /\ unacked' = [unacked EXCEPT ![cur.key] = {}]
    /\ wal_acked' = IF loc.sst_path = None THEN wal_acked \cup {cur.key} ELSE wal_acked
    /\ run_acked' = run_acked \cup {cur.key}
    /\ pc' = "idle"
    /\ cur' = NoOp
    /\ loc' = NoLoc
    /\ UNCHANGED <<up, requests, manifest_cache, updates_since_compaction, disk_vars,
                   rd, snap, boot, budget>>

\* put line 87 / delete line 120: the negative cache updated, Ok returned:
\* the mutation is acknowledged.
Finish ==
    /\ pc = "finish"
    /\ negative_cache' = IF cur.kind = "put" THEN negative_cache \ {cur.key}
                         ELSE negative_cache \cup {cur.key}
    /\ last_ack' = [last_ack EXCEPT ![cur.key] = Outcome(cur)]
    /\ unacked' = [unacked EXCEPT ![cur.key] = {}]
    /\ wal_acked' = IF loc.sst_path = None THEN wal_acked \cup {cur.key} ELSE wal_acked
    /\ run_acked' = run_acked \cup {cur.key}
    /\ pc' = "idle"
    /\ cur' = NoOp
    /\ loc' = NoLoc
    /\ UNCHANGED <<up, requests, manifest_cache, updates_since_compaction, disk_vars,
                   rd, snap, boot, budget>>

WriterStep ==
    \/ TryFlush \/ FlushWrite \/ FlushTmpOpen \/ FlushTmpWrite \/ FlushRename
    \/ FlushDirSync \/ FlushWalReset
    \/ TryCompact \/ CompactCreate \/ CompactWrite \/ CompactTmpOpen
    \/ CompactTmpWrite \/ CompactRename \/ CompactDirSync \/ CompactRemove
    \/ Finish

(***************************************************************************)
(* get, run to completion under the read lock (routes.rs get_key).         *)
(***************************************************************************)
\* Variant: get inserting the key whatever search_sst returned.
GetInserts_on_hit(key) ==
    /\ key \notin DOMAIN requests
    /\ key \notin negative_cache

\* get, lines 93-104: the key is not in the memtable, not in the negative
\* cache, and search_sst returned Ok(None).
GetInserts(key) ==
    /\ key \notin DOMAIN requests
    /\ key \notin negative_cache
    /\ search_sst(manifest_cache, ssts, key, Len(manifest_cache)) = Ok(None)

Get ==
    \E key \in Keys :
        /\ up /\ pc = "idle"
        /\ negative_cache' = IF GetInserts(key) THEN negative_cache \cup {key}
                             ELSE negative_cache
        /\ UNCHANGED <<up, requests, manifest_cache, updates_since_compaction,
                       disk_vars, pc, cur, loc, rd, hist_vars, budget>>

(***************************************************************************)
(* Spec: puts, deletes and gets, with stops/crashes of the process at any  *)
(* step and restarts.                                                      *)
(***************************************************************************)
Next == Startup \/ Put \/ Delete \/ WriterStep \/ Get \/ Crash

Spec == Init /\ [][Next]_vars

(***************************************************************************)
(* SpecRun: one run of the process from an empty store, no crash and no    *)
(* failing I/O call.                                                       *)
(***************************************************************************)
InitRun ==
    /\ InitState
    /\ budget = [ops |-> MaxOpsRun, crashes |-> 0, fails |-> 0, tears |-> 0]

NextRun == Startup \/ Put \/ Delete \/ WriterStep \/ Get

SpecRun == InitRun /\ [][NextRun]_vars

(***************************************************************************)
(* SpecIo: Spec, with I/O calls that fail.  The failing call has no        *)
(* effect and the handler returns its error through the ? operator.        *)
(***************************************************************************)
\* The steps at which the next call of the handler is an I/O call.
IoPending ==
    \/ pc \in {"flush_write", "flush_tmp_open", "flush_tmp_write", "flush_rename",
               "flush_dir_sync", "flush_wal_reset", "compact_create", "compact_write",
               "compact_tmp_open", "compact_tmp_write", "compact_rename",
               "compact_dir_sync"}
    \/ pc = "try_flush" /\ FlushNeeded
    \/ pc = "try_compact" /\ CompactionDue /\ manifest_cache # <<>>
    \/ pc = "compact_remove" /\ loc.removed < Len(manifest_cache)

\* Variant: the counter reset when an I/O call fails.
IoFail_reset_counter ==
    /\ IoPending
    /\ budget.fails > 0
    /\ budget' = [budget EXCEPT !.fails = @ - 1]
    /\ updates_since_compaction' = 0
    /\ ReturnErr
    /\ UNCHANGED <<up, requests, manifest_cache, negative_cache, disk_vars, rd>>

IoFail ==
    /\ IoPending
    /\ budget.fails > 0
    /\ budget' = [budget EXCEPT !.fails = @ - 1]
    /\ updates_since_compaction' =
           IF pc = "try_compact" THEN updates_since_compaction + 1
           ELSE updates_since_compaction
    /\ ReturnErr
    /\ UNCHANGED <<up, requests, manifest_cache, negative_cache, disk_vars, rd>>

\* Wal::put / Wal::delete fails before anything is written: put/delete
\* return the error at line 80 / 113.
WalFail ==
    /\ up /\ WriteLockFree
    /\ budget.ops > 0 /\ budget.fails > 0
    /\ budget' = [budget EXCEPT !.ops = @ - 1, !.fails = @ - 1]
    /\ snap' = NoSnap
    /\ boot' = NoBoot
    /\ UNCHANGED <<up, mem_vars, disk_vars, pc, cur, loc, rd, last_ack, unacked,
                   wal_acked, run_acked>>

InitIo ==
    /\ InitState
    /\ budget = [ops |-> MaxOpsIo, crashes |-> MaxCrashes, fails |-> MaxFails,
                 tears |-> 0]

NextIo == Next \/ IoFail \/ WalFail

SpecIo == InitIo /\ [][NextIo]_vars

(***************************************************************************)
(* SpecRecover: the process starts on the files an earlier run left: two   *)
(* live SSTs which both hold the keys "a" and "b" (sst-2 written by a      *)
(* compaction, sst-3 by the flush after it) and an empty WAL.  These are   *)
(* the states Spec reaches by put, put (flush), a mutation of "a"          *)
(* (compaction), a mutation of "b" (flush) and a stop.                     *)
(***************************************************************************)
SeedKeys == {<<97>>, <<98>>}
SeedPuts == {m \in [SeedKeys -> {new_put(k, v) : k \in SeedKeys, v \in Values}] :
               \A k \in SeedKeys : m[k].key = k}
SeedEntries ==
    {m \in [SeedKeys -> {new_put(k, v) : k \in SeedKeys, v \in Values}
                           \cup {new_delete(k) : k \in SeedKeys}] :
       \A k \in SeedKeys : m[k].key = k}

InitRecover ==
    \E older \in SeedPuts, newer \in SeedEntries :
        /\ up = FALSE
        /\ requests = EmptyMap
        /\ manifest_cache = <<>>
        /\ negative_cache = {}
        /\ updates_since_compaction = 0
        /\ wal = <<>>
        /\ manifest = <<sst_path(2), sst_path(3)>>
        /\ manifest_tmp = None
        /\ ssts = [path \in {sst_path(2), sst_path(3)} |->
                      IF path = sst_path(2) THEN SstFile(SortedEntries(older))
                      ELSE SstFile(SortedEntries(newer))]
        /\ dir_synced = TRUE
        /\ pc = "idle"
        /\ cur = NoOp
        /\ loc = NoLoc
        /\ rd = [r \in Readers |-> NoGet]
        /\ last_ack = [k \in Keys |-> IF k \in SeedKeys THEN value(newer[k]) ELSE None]
        /\ unacked = [k \in Keys |-> {}]
        /\ wal_acked = {}
        /\ run_acked = {}
        /\ snap = [valid |-> TRUE,
                   results |-> [k \in Keys |->
                                   IF k \in SeedKeys THEN Ok(value(newer[k]))
                                   ELSE Ok(None)]]
        /\ boot = NoBoot
        /\ budget = [ops |-> MaxOpsRecover, crashes |-> 0, fails |-> 0, tears |-> 0]

NextRecover == Startup \/ Put \/ Delete \/ WriterStep \/ Get

SpecRecover == InitRecover /\ [][NextRecover]_vars

(***************************************************************************)
(* SpecWal: as Spec, and the process may be killed while Wal::put or       *)
(* Wal::delete writes its line: any proper prefix of the line, the newline *)
(* never included, reaches the file.                                       *)
(***************************************************************************)
torn_append(e, n) ==
    /\ up /\ WriteLockFree
    /\ budget.ops > 0 /\ budget.tears > 0
    /\ budget' = [budget EXCEPT !.ops = @ - 1, !.tears = @ - 1]
    /\ wal' = wal \o SubSeq(WalLine(e), 1, n)
    /\ up' = FALSE
    /\ requests' = EmptyMap
    /\ manifest_cache' = <<>>
    /\ negative_cache' = {}
    /\ updates_since_compaction' = 0
    /\ unacked' = [unacked EXCEPT ![e.key] =
                      @ \cup {IF e.op = "put" THEN Some(e.value) ELSE None}]
    /\ snap' = NoSnap
    /\ boot' = NoBoot
    /\ UNCHANGED <<manifest, manifest_tmp, ssts, dir_synced, pc, cur, loc, rd,
                   last_ack, wal_acked>>
    /\ run_acked' = {}

TornAppend ==
    \E e \in AllEntries : \E n \in 1..(Len(WalLine(e)) - 1) : torn_append(e, n)

InitWal ==
    /\ InitState
    /\ budget = [ops |-> MaxOpsWal, crashes |-> MaxCrashes, fails |-> 0,
                 tears |-> MaxTears]

NextWal == Next \/ TornAppend

SpecWal == InitWal /\ [][NextWal]_vars

(***************************************************************************)
(* SpecConc: gets run concurrently, step by step.  routes.rs takes the     *)
(* read lock of the MemTable for a get and the write lock for a put or a   *)
(* delete; the negative cache has its own RwLock inside get.               *)
(***************************************************************************)
\* Variant: a get that starts without waiting for the write lock to be free.
GetStart_unlocked(r) ==
    \E key \in Keys :
        /\ up /\ rd[r].pc = "idle"
        /\ rd' = [rd EXCEPT ![r] = [pc |-> "requests", key |-> key,
                                    result |-> Ok(None)]]
        /\ UNCHANGED <<up, mem_vars, disk_vars, pc, cur, loc, hist_vars, budget>>

\* routes.rs get_key: state.buckets().read()
GetStart(r) ==
    \E key \in Keys :
        /\ up /\ pc = "idle" /\ rd[r].pc = "idle"
        /\ rd' = [rd EXCEPT ![r] = [pc |-> "requests", key |-> key,
                                    result |-> Ok(None)]]
        /\ UNCHANGED <<up, mem_vars, disk_vars, pc, cur, loc, hist_vars, budget>>

\* get, lines 93-95: the memtable lookup.
GetRequests(r) ==
    /\ rd[r].pc = "requests"
    /\ rd' = [rd EXCEPT ![r] =
                 IF rd[r].key \in DOMAIN requests
                 THEN [@ EXCEPT !.pc = "return",
                                !.result = Ok(value(requests[rd[r].key]))]
                 ELSE [@ EXCEPT !.pc = "search_negative_cache"]]
    /\ UNCHANGED <<up, mem_vars, disk_vars, pc, cur, loc, hist_vars, budget>>

\* get, lines 97-99: search_negative_cache under the cache's read lock.
GetSearchNegativeCache(r) ==
    /\ rd[r].pc = "search_negative_cache"
    /\ rd' = [rd EXCEPT ![r] =
                 IF rd[r].key \in negative_cache
                 THEN [@ EXCEPT !.pc = "return", !.result = Ok(None)]
                 ELSE [@ EXCEPT !.pc = "search_sst"]]
    /\ UNCHANGED <<up, mem_vars, disk_vars, pc, cur, loc, hist_vars, budget>>

\* Variant: a get that inserts the key into the negative cache also when the
\* scan of the SSTs failed.
GetSearchSst_insert_on_error(r) ==
    /\ rd[r].pc = "search_sst"
    /\ LET result == search_sst(manifest_cache, ssts, rd[r].key, Len(manifest_cache))
       IN rd' = [rd EXCEPT ![r] =
                    [@ EXCEPT !.pc = IF result = Ok(None) \/ ~result.ok THEN "insert" ELSE "return",
                              !.result = result]]
    /\ UNCHANGED <<up, mem_vars, disk_vars, pc, cur, loc, hist_vars, budget>>

\* get, line 101: search_sst.
GetSearchSst(r) ==
    /\ rd[r].pc = "search_sst"
    /\ LET result == search_sst(manifest_cache, ssts, rd[r].key, Len(manifest_cache))
       IN rd' = [rd EXCEPT ![r] =
                    [@ EXCEPT !.pc = IF result = Ok(None) THEN "insert" ELSE "return",
                              !.result = result]]
    /\ UNCHANGED <<up, mem_vars, disk_vars, pc, cur, loc, hist_vars, budget>>

\* get, lines 103-104: the insert under the cache's write lock.
GetInsert(r) ==
    /\ rd[r].pc = "insert"
    /\ negative_cache' = negative_cache \cup {rd[r].key}
    /\ rd' = [rd EXCEPT ![r] = [@ EXCEPT !.pc = "return"]]
    /\ UNCHANGED <<up, requests, manifest_cache, updates_since_compaction,
                   disk_vars, pc, cur, loc, hist_vars, budget>>

\* get returns, the read lock is released.
GetReturn(r) ==
    /\ rd[r].pc = "return"
    /\ rd' = [rd EXCEPT ![r] = NoGet]
    /\ UNCHANGED <<up, mem_vars, disk_vars, pc, cur, loc, hist_vars, budget>>

GetStep ==
    \E r \in Readers :
        \/ GetStart(r) \/ GetRequests(r) \/ GetSearchNegativeCache(r)
        \/ GetSearchSst(r) \/ GetInsert(r) \/ GetReturn(r)

InitConc ==
    /\ InitState
    /\ budget = [ops |-> MaxOpsConc, crashes |-> MaxCrashes, fails |-> 0, tears |-> 0]

NextConc == Startup \/ Put \/ Delete \/ WriterStep \/ GetStep \/ Crash

SpecConc == InitConc /\ [][NextConc]_vars

(***************************************************************************)
(* SpecRecoverConc: as SpecRecover, with the gets running step by step.     *)
(***************************************************************************)
\* The files of InitRecover whose older SST holds the value 1 for both keys.
InitRecoverConc ==
    /\ InitRecover
    /\ \A i \in 1..Len(ssts[sst_path(2)].records) :
           ssts[sst_path(2)].records[i].value = Some(1)

NextRecoverConc == Startup \/ Put \/ Delete \/ WriterStep \/ GetStep

SpecRecoverConc == InitRecoverConc /\ [][NextRecoverConc]_vars

(***************************************************************************)
(* SpecRunIo: one run of the process with I/O calls that fail.             *)
(***************************************************************************)
InitRunIo ==
    /\ InitState
    /\ budget = [ops |-> MaxOpsRunIo, crashes |-> 0, fails |-> MaxFails, tears |-> 0]

NextRunIo == Startup \/ Put \/ Delete \/ WriterStep \/ Get \/ IoFail \/ WalFail

SpecRunIo == InitRunIo /\ [][NextRunIo]_vars

(***************************************************************************)
(* SpecWalFail: one run of the process in which Wal::put / Wal::delete     *)
(* may return an error at any of its calls: at the open (nothing           *)
(* written), in writeln! (a proper prefix of the line written) or at       *)
(* flush / sync_all (the whole line written).  put / delete return the     *)
(* error at line 80 / 113.                                                 *)
(***************************************************************************)
\* Variant: the memtable entry inserted before the WAL append is tried.
wal_fail_after_insert(e, n) ==
    /\ up /\ WriteLockFree
    /\ budget.ops > 0 /\ budget.fails > 0
    /\ budget' = [budget EXCEPT !.ops = @ - 1, !.fails = @ - 1]
    /\ wal' = wal \o SubSeq(WalLine(e), 1, n)
    /\ requests' = Insert(requests, e.key,
                          IF e.op = "put" THEN new_put(e.key, e.value)
                          ELSE new_delete(e.key))
    /\ unacked' = [unacked EXCEPT ![e.key] =
                      @ \cup {IF e.op = "put" THEN Some(e.value) ELSE None}]
    /\ snap' = NoSnap
    /\ boot' = NoBoot
    /\ UNCHANGED <<up, manifest_cache, negative_cache, updates_since_compaction,
                   manifest, manifest_tmp, ssts, dir_synced, pc, cur, loc, rd,
                   last_ack, wal_acked, run_acked>>

wal_fail(e, n) ==
    /\ up /\ WriteLockFree
    /\ budget.ops > 0 /\ budget.fails > 0
    /\ budget' = [budget EXCEPT !.ops = @ - 1, !.fails = @ - 1]
    /\ wal' = wal \o SubSeq(WalLine(e), 1, n)
    /\ unacked' = [unacked EXCEPT ![e.key] =
                      IF n = 0 THEN @
                      ELSE @ \cup {IF e.op = "put" THEN Some(e.value) ELSE None}]
    /\ snap' = NoSnap
    /\ boot' = NoBoot
    /\ UNCHANGED <<up, mem_vars, manifest, manifest_tmp, ssts, dir_synced, pc, cur,
                   loc, rd, last_ack, wal_acked, run_acked>>

WalAppendFail ==
    \E e \in AllEntries : \E n \in 0..Len(WalLine(e)) : wal_fail(e, n)

InitWalFail ==
    /\ InitState
    /\ budget = [ops |-> MaxOpsWalFail, crashes |-> 0, fails |-> MaxFails, tears |-> 0]

NextWalFail == Startup \/ Put \/ Delete \/ WriterStep \/ Get \/ WalAppendFail

SpecWalFail == InitWalFail /\ [][NextWalFail]_vars

(***************************************************************************)
(* SpecLock: the two locks made explicit.  A request arrives and waits for *)
(* the RwLock of the MemTable (routes.rs: buckets().read() for a get,      *)
(* buckets().write() for a put or delete); inside the handler the          *)
(* negative cache has its own RwLock, taken and released within one        *)
(* statement (memtable.rs lines 87, 103, 120, 139).  A position names the  *)
(* locks its request holds.  A reader does not pass a waiting writer.      *)
(***************************************************************************)
\* The requests holding the MemTable lock, and those holding the lock of the
\* negative cache.
OuterWriteHeld == pc \notin {"idle", "wait_write"}
OuterReaders == {r \in Readers : rd[r].pc \notin {"idle", "wait_read"}}
NcWriteHeld == pc = "nc_write_held"
NcWriters == {r \in Readers : rd[r].pc = "nc_write_held"}
NcReaders == {r \in Readers : rd[r].pc = "nc_read_held"}

\* The keys and the value of the requests of SpecLock.
LockKeys == {<<97>>, <<98>>}
LockValue == 1

\* routes.rs get_key is called.
GetArrive(r) ==
    \E key \in LockKeys :
        /\ up /\ rd[r].pc = "idle"
        /\ rd' = [rd EXCEPT ![r] = [pc |-> "wait_read", key |-> key,
                                    result |-> Ok(None)]]
        /\ UNCHANGED <<up, mem_vars, disk_vars, pc, cur, loc, hist_vars, budget>>

\* routes.rs line 41: buckets().read() returns.
GetLockRead(r) ==
    /\ rd[r].pc = "wait_read"
    /\ pc = "idle"
    /\ rd' = [rd EXCEPT ![r] = [@ EXCEPT !.pc = "requests"]]
    /\ UNCHANGED <<up, mem_vars, disk_vars, pc, cur, loc, hist_vars, budget>>

\* search_negative_cache, line 139: negative_cache.read() returns.
NcLockRead(r) ==
    /\ rd[r].pc = "search_negative_cache"
    /\ ~NcWriteHeld /\ NcWriters = {}
    /\ rd' = [rd EXCEPT ![r] = [@ EXCEPT !.pc = "nc_read_held"]]
    /\ UNCHANGED <<up, mem_vars, disk_vars, pc, cur, loc, hist_vars, budget>>

\* line 139: contains(key), the guard dropped at the end of the statement.
NcUnlockRead(r) ==
    /\ rd[r].pc = "nc_read_held"
    /\ rd' = [rd EXCEPT ![r] =
                 IF rd[r].key \in negative_cache
                 THEN [@ EXCEPT !.pc = "return", !.result = Ok(None)]
                 ELSE [@ EXCEPT !.pc = "search_sst"]]
    /\ UNCHANGED <<up, mem_vars, disk_vars, pc, cur, loc, hist_vars, budget>>

\* Variant: the read guard of search_negative_cache still alive when get asks
\* for the write lock of the negative cache.
NcLockWrite_guard_alive(r) ==
    /\ rd[r].pc = "insert"
    /\ ~NcWriteHeld /\ NcWriters = {} /\ NcReaders \cup {r} = {}
    /\ rd' = [rd EXCEPT ![r] = [@ EXCEPT !.pc = "nc_write_held"]]
    /\ UNCHANGED <<up, mem_vars, disk_vars, pc, cur, loc, hist_vars, budget>>

\* get, line 103: negative_cache.write() returns.
NcLockWrite(r) ==
    /\ rd[r].pc = "insert"
    /\ ~NcWriteHeld /\ NcWriters = {} /\ NcReaders = {}
    /\ rd' = [rd EXCEPT ![r] = [@ EXCEPT !.pc = "nc_write_held"]]
    /\ UNCHANGED <<up, mem_vars, disk_vars, pc, cur, loc, hist_vars, budget>>

\* line 103: insert(key), the guard dropped at the end of the statement.
NcUnlockWrite(r) ==
    /\ rd[r].pc = "nc_write_held"
    /\ negative_cache' = negative_cache \cup {rd[r].key}
    /\ rd' = [rd EXCEPT ![r] = [@ EXCEPT !.pc = "return"]]
    /\ UNCHANGED <<up, requests, manifest_cache, updates_since_compaction,
                   disk_vars, pc, cur, loc, hist_vars, budget>>

GetLockStep(r) ==
    \/ GetLockRead(r) \/ GetRequests(r) \/ NcLockRead(r) \/ NcUnlockRead(r)
    \/ GetSearchSst(r) \/ NcLockWrite(r) \/ NcUnlockWrite(r) \/ GetReturn(r)

\* routes.rs put_key / delete_key is called.
PutArrive ==
    \E key \in LockKeys, v \in {LockValue} :
        /\ up /\ pc = "idle"
        /\ budget.ops > 0
        /\ budget' = [budget EXCEPT !.ops = @ - 1]
        /\ pc' = "wait_write"
        /\ cur' = [kind |-> "put", key |-> key, value |-> v]
        /\ UNCHANGED <<up, mem_vars, disk_vars, loc, rd, hist_vars>>

DeleteArrive ==
    \E key \in LockKeys :
        /\ up /\ pc = "idle"
        /\ budget.ops > 0
        /\ budget' = [budget EXCEPT !.ops = @ - 1]
        /\ pc' = "wait_write"
        /\ cur' = [kind |-> "delete", key |-> key, value |-> 0]
        /\ UNCHANGED <<up, mem_vars, disk_vars, loc, rd, hist_vars>>

\* routes.rs line 31 / 64: buckets().write() returns; MemTable::put lines
\* 80-83 / MemTable::delete lines 113-116.
LockWrite ==
    /\ pc = "wait_write"
    /\ OuterReaders = {}
    /\ wal' = wal \o WalLine(IF cur.kind = "put" THEN Entry_put(cur.key, cur.value)
                             ELSE Entry_delete(cur.key))
    /\ requests' = Insert(requests, cur.key,
                          IF cur.kind = "put" THEN new_put(cur.key, cur.value)
                          ELSE new_delete(cur.key))
    /\ pc' = "try_flush"
    /\ snap' = NoSnap
    /\ boot' = NoBoot
    /\ UNCHANGED <<up, manifest_cache, negative_cache, updates_since_compaction,
                   manifest, manifest_tmp, ssts, dir_synced, cur, loc, rd, last_ack,
                   unacked, wal_acked, run_acked, budget>>

\* put line 87 / delete line 120: negative_cache.write() returns.
FinishNcLock ==
    /\ pc = "finish"
    /\ NcWriters = {} /\ NcReaders = {}
    /\ pc' = "nc_write_held"
    /\ UNCHANGED <<up, mem_vars, disk_vars, cur, loc, rd, hist_vars, budget>>

\* line 87 / 120: remove(key) / insert(key), the guard dropped, Ok returned
\* and the MemTable lock released.
FinishNcUnlock ==
    /\ pc = "nc_write_held"
    /\ negative_cache' = IF cur.kind = "put" THEN negative_cache \ {cur.key}
                         ELSE negative_cache \cup {cur.key}
    /\ last_ack' = [last_ack EXCEPT ![cur.key] = Outcome(cur)]
    /\ unacked' = [unacked EXCEPT ![cur.key] = {}]
    /\ wal_acked' = IF loc.sst_path = None THEN wal_acked \cup {cur.key} ELSE wal_acked
    /\ run_acked' = run_acked \cup {cur.key}
    /\ pc' = "idle"
    /\ cur' = NoOp
    /\ loc' = NoLoc
    /\ UNCHANGED <<up, requests, manifest_cache, updates_since_compaction, disk_vars,
                   rd, snap, boot, budget>>

WriterLockStep ==
    \/ LockWrite
    \/ TryFlush \/ FlushWrite \/ FlushTmpOpen \/ FlushTmpWrite \/ FlushRename
    \/ FlushDirSync \/ FlushWalReset
    \/ TryCompact \/ CompactCreate \/ CompactWrite \/ CompactTmpOpen
    \/ CompactTmpWrite \/ CompactRename \/ CompactDirSync \/ CompactRemove
    \/ FinishNcLock \/ FinishNcUnlock

InitLock ==
    /\ InitState
    /\ budget = [ops |-> MaxOpsLock, crashes |-> 0, fails |-> 0, tears |-> 0]

NextLock ==
    \/ Startup \/ PutArrive \/ DeleteArrive \/ WriterLockStep
    \/ \E r \in Readers : GetArrive(r) \/ GetLockStep(r)

\* Fair lock scheduling: a request that can take its next step again and
\* again takes it.
SpecLock ==
    /\ InitLock /\ [][NextLock]_vars
    /\ SF_vars(WriterLockStep)
    /\ \A r \in Readers : SF_vars(GetLockStep(r))

(***************************************************************************)
(* Claims.                                                                 *)
(***************************************************************************)
Quiescent == up /\ pc = "idle" /\ \A r \in Readers : rd[r].pc = "idle"

\* C1: in a single run without I/O failure, at every point between two
\* mutations, get(k) returns Some(v) with v the value of the last put on k
\* when the last mutation of k was a put, and None when it was a delete or k
\* was never written.
C1_LastWriteWins ==
    Quiescent => \A k \in Keys : GetResult(k) = Ok(last_ack[k])

\* A run with flushes and a compaction behind it, a key in the negative
\* cache, a written key that is read from an SST, a deleted key whose
\* tombstone is in an SST and one whose tombstone is in the memtable.
C1_Witness ==
    /\ Quiescent
    /\ Len(manifest_cache) >= 2
    /\ next_sst_id(manifest_cache) >= 4
    /\ negative_cache # {}
    /\ \E k \in Keys : k \notin DOMAIN requests /\ last_ack[k] = Some(2)
    /\ \E k \in Tombstoned : k \notin DOMAIN requests /\ last_ack[k] = None
    /\ \E k \in Keys \ Tombstoned : k \in DOMAIN requests /\ last_ack[k] = None

\* C2: after a stop of the process between two mutations and a successful
\* startup() on the same files, get returns for every key what it returned
\* before the stop.
C2_RestartDurable ==
    (Quiescent /\ boot.status = "ok" /\ snap.valid) =>
        \A k \in Keys : GetResult(k) = snap.results[k]

\* What recovery reads from the files: the replay of the WAL over the
\* newest-wins merge of the SSTs the manifest lists, last line newest.
Recovered(replay, key) ==
    IF ~replay.ok THEN Err
    ELSE IF key \in DOMAIN replay.entries THEN Ok(value(replay.entries[key]))
    ELSE search_sst(manifest, ssts, key, Len(manifest))

\* The outcomes a key may show: that of its last acknowledged mutation, or
\* that of a later mutation of it that was started and is not acknowledged.
Allowed(key) ==
    {last_ack[key]} \cup unacked[key]
        \cup (IF cur.kind # "none" /\ cur.key = key THEN {Outcome(cur)} ELSE {})

\* C3: at every step of put, delete, flush and compaction, replaying the WAL
\* on disk over the newest-wins merge of the SSTs of the manifest on disk
\* gives, for every key, the outcome of its last acknowledged mutation (or
\* that of the mutation in progress).
C3_RecoveryPoint ==
    LET replay == WalReplay(wal) IN
    \A k \in Keys :
        LET found == Recovered(replay, k) IN
        found.ok /\ found.val \in Allowed(k)

\* The records of a WAL file that precede its first line that is not the
\* serialisation of a record with its checksum, replayed in order.
RECURSIVE IntactPrefix(_, _, _)
IntactPrefix(lines, i, entries) ==
    IF i > Len(lines) THEN entries
    ELSE LET intact == {e \in AllEntries : LogString(Log_new(e)) = lines[i]} IN
         IF intact = {} THEN entries
         ELSE LET e == CHOOSE x \in intact : TRUE IN
              IntactPrefix(lines, i + 1, Insert(entries, e.key, EntryToSst(e)))

\* C4: on a WAL cut at any offset startup() succeeds and installs as the
\* memtable the replay of exactly the records that precede the first record
\* that fails to parse or fails its checksum.
C4_TornTailReplay ==
    boot.status # "none" =>
        /\ boot.status = "ok"
        /\ requests = IntactPrefix(SplitLines(wal, <<>>), 1, EmptyMap)

\* C5: a replay of the WAL on disk that succeeds yields every key whose last
\* acknowledged mutation is not yet flushed, with the outcome of that
\* mutation (or of a later mutation of the key that is not acknowledged),
\* also when the mutation was acknowledged after a startup that recovered
\* from a torn last record.
C5_AckedInWal ==
    LET replay == WalReplay(wal) IN
    replay.ok =>
        \A k \in wal_acked :
            /\ k \in DOMAIN replay.entries
            /\ value(replay.entries[k]) \in Allowed(k)

\* C6: the live manifest file changes only by the rename of a manifest.tmp
\* that holds the complete new list: the list before a flush plus the
\* flushed SST, or the list a compaction produced.  At every other step,
\* crash and I/O failure included, it keeps the complete list from before.
C6_ManifestAtomic ==
    [][manifest' # manifest =>
          /\ pc \in {"flush_rename", "compact_rename"}
          /\ manifest_tmp = Some(manifest')
          /\ manifest_tmp' = None
          /\ manifest' = IF pc = "flush_rename"
                         THEN manifest \o <<loc.sst_path[1]>>
                         ELSE loc.new_sst_paths]_vars

C6_Witness ==
    /\ pc = "flush_dir_sync"
    /\ manifest = <<sst_path(1)>>
    /\ manifest_tmp = None
    /\ budget.crashes = 0
    /\ budget.fails = 0

\* C7: after a successful startup() the .json files of the SST directory are
\* exactly the files that were there before and that the manifest lists:
\* every unreferenced file is gone and no listed file was deleted.
C7_OrphanCleanup ==
    boot.status = "ok" => DOMAIN ssts = boot.before \cap Range(manifest)

C7_Witness ==
    /\ boot.status = "ok"
    /\ boot.before \ DOMAIN ssts # {}
    /\ DOMAIN ssts # {}
    /\ budget.fails = 0

\* A compaction has just returned Ok; the put or delete that ran it has not
\* yet touched the negative cache.
Compacted == pc = "finish" /\ loc.compacting

\* C8: right after a successful compaction get(k) gives, for every key, what
\* it gave right before the compaction.
C8_CompactionEquivalence ==
    Compacted => \A k \in Keys : GetResult(k) = loc.before[k]

\* C9: right after a successful compaction no SST listed in the manifest
\* holds a Delete entry, and every key whose newest entry in the compacted
\* SSTs was a tombstone, and that the memtable does not hold, reads as None.
C9_TombstoneDrop ==
    Compacted =>
        /\ \A i \in 1..Len(manifest) :
               LoadOk(ssts, manifest[i]) =>
                   \A j \in 1..Len(ssts[manifest[i]].records) :
                       ssts[manifest[i]].records[j].deleted # Some(TRUE)
        /\ \A k \in loc.tombstones \ DOMAIN requests : GetResult(k) = Ok(None)

C12_ConsistentAfterFailure ==
    (Quiescent /\ budget.crashes = MaxCrashes) =>
        \A k \in Keys :
            /\ GetResult(k).ok
            /\ GetResult(k).val \in {last_ack[k]} \cup unacked[k]

\* C13: a step of a get changes neither the memtable, the WAL, the manifest,
\* manifest_cache nor the SST files; a get whose scan of the SSTs fails
\* returns the error; and a get inserts its key into the negative cache,
\* and nothing else, only when its scan of the SSTs completed without error
\* and found no value.
C13_GetErrorLeavesCache ==
    [][\A r \in Readers :
          (rd[r].pc # "idle" /\ rd'[r] # rd[r] /\ up') =>
              /\ UNCHANGED <<requests, wal, manifest, manifest_tmp, manifest_cache,
                             ssts, updates_since_compaction>>
              /\ (rd[r].pc = "search_sst"
                    /\ ~search_sst(manifest_cache, ssts, rd[r].key,
                                   Len(manifest_cache)).ok) =>
                     /\ rd'[r].pc = "return"
                     /\ rd'[r].result = Err
                     /\ negative_cache' = negative_cache
              /\ negative_cache' # negative_cache =>
                     /\ negative_cache' = negative_cache \cup {rd[r].key}
                     /\ rd[r].key \notin DOMAIN requests
                     /\ search_sst(manifest_cache, ssts, rd[r].key,
                                   Len(manifest_cache)) = Ok(None)
              /\ rd[r].result = Err => negative_cache' = negative_cache]_vars

C13_Witness ==
    /\ rd[1].pc = "return" /\ rd[1].result = Err
    /\ rd[1].key \notin negative_cache
    /\ rd[2].pc = "return" /\ rd[2].result = Ok(None)
    /\ rd[2].key \in negative_cache

\* C14: at every quiescent point (after startup() and after every put or
\* delete that returned, Ok or error) manifest_cache equals the list of
\* paths of the on-disk manifest, element for element, in the same order.
C14_CacheMirrorsManifest ==
    Quiescent => manifest_cache = manifest

\* The largest SST id in a list of SST paths, 0 for the empty list.
MaxSstId(cache) ==
    IF cache = <<>> THEN 0
    ELSE CHOOSE id \in {ParseSstId(cache[i]) : i \in 1..Len(cache)} :
             \A i \in 1..Len(cache) : ParseSstId(cache[i]) <= id

\* C15: the SST a flush or a compaction has just created has the id one more
\* than the largest id in manifest_cache (counting on for the further
\* outputs of a compaction), and its path is not one the manifest lists.
C15_FreshSstId ==
    /\ pc = "flush_write" =>
           /\ loc.sst_path[1] = sst_path(MaxSstId(manifest_cache) + 1)
           /\ \A i \in 1..Len(manifest) : manifest[i] # loc.sst_path[1]
    /\ pc = "compact_write" =>
           /\ CompactPath =
                  sst_path(MaxSstId(manifest_cache) + 1 + Len(loc.new_sst_paths))
           /\ \A i \in 1..Len(manifest) : manifest[i] # CompactPath

\* C16: a put or delete flushes if and only if, after its insert, the
\* memtable holds at least FLUSH_THRESHOLD distinct keys.  The flush drains
\* every entry of the memtable, puts and tombstones, each once, into one SST
\* whose path the manifest does not list yet; writes them to that file and
\* to no other; makes the path the last line of the manifest and the last
\* element of manifest_cache, the earlier ones kept in their order; and
\* leaves the memtable and the WAL empty.
C16_FlushEffects ==
    [][/\ (pc = "try_flush" /\ pc' \in {"flush_write", "try_compact"}) =>
              /\ pc' = "flush_write" <=> Cardinality(DOMAIN requests) >= FLUSH_THRESHOLD
              /\ pc' = "flush_write" =>
                     /\ Len(loc'.requests) = Cardinality(DOMAIN requests)
                     /\ {loc'.requests[i] : i \in 1..Len(loc'.requests)}
                            = {requests[k] : k \in DOMAIN requests}
                     /\ \A i \in 1..Len(manifest) : manifest[i] # loc'.sst_path[1]
                     /\ \A i \in 1..Len(manifest_cache) :
                            manifest_cache[i] # loc'.sst_path[1]
                     /\ requests' = EmptyMap
       /\ (pc = "flush_write" /\ pc' = "flush_tmp_open") =>
              /\ LoadOk(ssts', loc.sst_path[1])
              /\ ssts'[loc.sst_path[1]].records
                     = [i \in 1..Len(loc.requests) |-> SerializeEntry(loc.requests[i])]
              /\ \A path \in DOMAIN ssts' \ {loc.sst_path[1]} :
                     path \in DOMAIN ssts /\ ssts'[path] = ssts[path]
       /\ (pc = "flush_rename" /\ pc' = "flush_dir_sync") =>
              manifest' = Append(manifest, loc.sst_path[1])
       /\ (pc = "flush_wal_reset" /\ pc' = "try_compact") =>
              /\ manifest_cache' = Append(manifest_cache, loc.sst_path[1])
              /\ manifest[Len(manifest)] = loc.sst_path[1]
              /\ wal' = <<>>
              /\ requests' = EmptyMap
              /\ ssts' = ssts]_vars

\* A compaction has loaded the SSTs of manifest_cache and merged them, and
\* has not yet written anything.
Merged == loc.compacting /\ loc.new_sst_paths = <<>>
             /\ pc \in {"compact_create", "compact_tmp_open"}

\* The entries of the output SSTs of the compaction, in the order written.
RECURSIVE Flatten(_)
Flatten(chunks) ==
    IF chunks = <<>> THEN <<>> ELSE Head(chunks) \o Flatten(Tail(chunks))

\* The positions in manifest_cache of the SSTs that hold an entry for key.
Holding(key) ==
    {i \in 1..Len(manifest_cache) :
        \E j \in 1..Len(ssts[manifest_cache[i]].records) :
            ssts[manifest_cache[i]].records[j].key = key}

\* C17: for every key that occurs in an SST of manifest_cache the compaction
\* takes the entry of the SST at the highest position in manifest_cache: a
\* Put is emitted exactly once, a Delete not at all; a key that occurs in no
\* input SST is not emitted.
C17_NewestWins ==
    Merged =>
        LET emitted == Flatten(loc.chunks) IN
        \A k \in Keys :
            LET at == {n \in 1..Len(emitted) : emitted[n].key = k} IN
            IF Holding(k) = {} THEN at = {}
            ELSE LET top == CHOOSE i \in Holding(k) : \A h \in Holding(k) : h <= i
                     records == ssts[manifest_cache[top]].records
                     winner == CHOOSE j \in 1..Len(records) : records[j].key = k
                 IN IF records[winner].deleted = Some(TRUE) THEN at = {}
                    ELSE /\ Cardinality(at) = 1
                         /\ \A n \in at :
                                SerializeEntry(emitted[n]) = records[winner]

C17_Witness ==
    /\ Merged
    /\ Len(manifest_cache) = 2
    /\ ssts[manifest_cache[1]].records =
           <<SerializeEntry(new_put(<<97>>, 1)), SerializeEntry(new_put(<<98>>, 1))>>
    /\ ssts[manifest_cache[2]].records =
           <<SerializeEntry(new_delete(<<97>>)), SerializeEntry(new_put(<<98>>, 2))>>
    /\ loc.chunks = <<<<new_put(<<98>>, 2)>>>>

\* The content of an SST file is a non-empty list of entries with strictly
\* ascending keys (hence at most one entry per key).
WellFormedSst(file) ==
    /\ file.complete
    /\ Len(file.records) >= 1
    /\ \A i \in 1..(Len(file.records) - 1) :
           KeyLt(file.records[i].key, file.records[i + 1].key)

\* C18: in every reachable state every SST file that a flush or a compaction
\* has written, and every SST file the manifest lists, is non-empty and has
\* strictly ascending keys.
C18_SstWellFormed ==
    /\ \A path \in DOMAIN ssts : ssts[path].complete => WellFormedSst(ssts[path])
    /\ \A i \in 1..Len(manifest) :
           manifest[i] \in DOMAIN ssts => WellFormedSst(ssts[manifest[i]])

\* The positions of a put or delete inside compact_sst.
CompactPcs ==
    {"compact_create", "compact_write", "compact_tmp_open", "compact_tmp_write",
     "compact_rename", "compact_dir_sync", "compact_remove"}

\* C19: try_compact adds exactly one to the counter of every put or delete
\* that reaches it; compact_sst runs in the operation in which the counter
\* reaches COMPACTION_THRESHOLD and in no other; the counter goes back to
\* zero only when compact_sst returned Ok; a compaction that fails leaves the
\* counter at or above the threshold, so the next mutation runs compact_sst
\* again.
C19_CounterDiscipline ==
    [][/\ (pc = "try_compact" /\ up') =>
              /\ \/ updates_since_compaction' = updates_since_compaction + 1
                 \/ /\ updates_since_compaction' = 0
                    /\ manifest_cache = <<>>
                    /\ pc' = "finish"
              /\ updates_since_compaction + 1 < COMPACTION_THRESHOLD =>
                     /\ pc' = "finish"
                     /\ updates_since_compaction' = updates_since_compaction + 1
              /\ updates_since_compaction + 1 >= COMPACTION_THRESHOLD =>
                     \/ pc' \in CompactPcs
                     \/ pc' = "idle"
                     \/ pc' = "finish" /\ updates_since_compaction' = 0
       /\ (pc # "try_compact" /\ up'
             /\ updates_since_compaction' # updates_since_compaction) =>
              /\ pc = "compact_remove" /\ pc' = "finish"
              /\ updates_since_compaction' = 0
       /\ (pc \in CompactPcs /\ up') =>
              /\ updates_since_compaction >= COMPACTION_THRESHOLD
              /\ pc' = "idle" =>
                     updates_since_compaction' = updates_since_compaction]_vars

C19_Witness ==
    /\ pc = "compact_create"
    /\ updates_since_compaction = COMPACTION_THRESHOLD + 1
    /\ budget.fails = 0

\* A compaction has renamed the new manifest into place.
ManifestReplaced == loc.compacting /\ pc = "compact_dir_sync"

\* C20: when a compaction has replaced the manifest, the manifest lists the
\* output SSTs in the order written, with consecutive increasing ids; every
\* output SST but the last holds exactly FLUSH_THRESHOLD entries and the last
\* between 1 and FLUSH_THRESHOLD; the keys ascend inside every output SST and
\* from each output SST to the next; the listed files hold exactly the merged
\* entries, and the manifest is empty when nothing was emitted.
C20_OutputChunks ==
    ManifestReplaced =>
        LET n == Len(manifest) IN
        /\ manifest = loc.new_sst_paths
        /\ \A i \in 1..n : LoadOk(ssts, manifest[i])
        /\ \A i \in 1..(n - 1) :
               /\ ParseSstId(manifest[i + 1]) = ParseSstId(manifest[i]) + 1
               /\ Len(ssts[manifest[i]].records) = FLUSH_THRESHOLD
               /\ KeyLt(ssts[manifest[i]].records[FLUSH_THRESHOLD].key,
                        ssts[manifest[i + 1]].records[1].key)
        /\ n >= 1 => /\ Len(ssts[manifest[n]].records) >= 1
                     /\ Len(ssts[manifest[n]].records) <= FLUSH_THRESHOLD
        /\ \A i \in 1..n :
               \A j \in 1..(Len(ssts[manifest[i]].records) - 1) :
                   KeyLt(ssts[manifest[i]].records[j].key,
                         ssts[manifest[i]].records[j + 1].key)
        /\ Flatten([i \in 1..n |-> Load(ssts, manifest[i])]) = Flatten(loc.chunks)

C20_Witness ==
    /\ ManifestReplaced
    /\ Len(manifest) = 2
    /\ Len(ssts[manifest[1]].records) = FLUSH_THRESHOLD
    /\ Len(ssts[manifest[2]].records) = 1

\* The positions in manifest_cache of the readable SSTs with an entry for key.
SstsWith(key) ==
    {i \in 1..Len(manifest_cache) :
        /\ LoadOk(ssts, manifest_cache[i])
        /\ \E j \in 1..Len(ssts[manifest_cache[i]].records) :
               ssts[manifest_cache[i]].records[j].key = key}

\* The entry for key of the SST at the highest such position is a Delete.
NewestSstEntryIsDelete(key) ==
    \E i \in SstsWith(key) :
        /\ \A h \in SstsWith(key) : h <= i
        /\ \E j \in 1..Len(ssts[manifest_cache[i]].records) :
               /\ ssts[manifest_cache[i]].records[j].key = key
               /\ ssts[manifest_cache[i]].records[j].deleted = Some(TRUE)

AppendFailed == pc = "idle" /\ budget'.fails = budget.fails - 1

\* C22: a step of a running process that puts an entry into the memtable
\* appends the WAL line of that entry in the same put or delete, the line
\* complete at the end of the file; and a put or delete whose WAL append
\* fails returns at once, the memtable, the negative cache, the counter,
\* manifest_cache, the manifest and the SST files as they were.
C22_WalBeforeMemtable ==
    [][/\ \A key \in Keys :
              (/\ up /\ up'
               /\ key \in DOMAIN requests'
               /\ key \notin DOMAIN requests \/ requests'[key] # requests[key]) =>
                  LET line == WalLine(IF is_delete(requests'[key])
                                      THEN Entry_delete(key)
                                      ELSE Entry_put(key, requests'[key].value[1]))
                  IN /\ wal' = wal \o line
                     /\ pc' = "try_flush"
       /\ AppendFailed =>
              /\ pc' = "idle"
              /\ UNCHANGED <<requests, negative_cache, updates_since_compaction,
                             manifest_cache, manifest, ssts>>]_vars

\* A put or delete has failed in its WAL append after writing to the file,
\* with entries in the memtable.
C22_Witness ==
    /\ up /\ pc = "idle"
    /\ budget.fails = 0
    /\ requests # EmptyMap
    /\ wal # <<>>
    /\ wal[Len(wal)] # NL

\* try_flush has just returned Ok after writing an SST.
Flushed == pc = "try_compact" /\ loc.sst_path # None

\* C23: without failing I/O call and without torn record, between two
\* operations of a running process the memtable is the replay of the WAL
\* file (Wal::existing_entries: the last entry of each key, a Put with its
\* value or a Delete), and right after a flush the memtable and the WAL are
\* both empty.
C23_MemtableIsWalReplay ==
    LET replay == WalReplay(wal) IN
    /\ Quiescent => /\ replay.ok
                    /\ requests = replay.entries
    /\ Flushed => /\ requests = EmptyMap
                  /\ wal = <<>>

\* The process was stopped between two operations and has started again:
\* the memtable holds the Delete that was in the WAL.
C23_Witness ==
    /\ Quiescent
    /\ snap.valid
    /\ boot.status = "ok"
    /\ budget.crashes = 0
    /\ \E key \in DOMAIN requests : is_delete(requests[key])

\* C24: in every reachable state, a stop of the process or a failed I/O call
\* at any step of a flush or a compaction included, every path the manifest
\* file lists names an SST file that exists and is completely written.
C24_ManifestFilesComplete ==
    \A i \in 1..Len(manifest) :
        /\ manifest[i] \in DOMAIN ssts
        /\ ssts[manifest[i]].complete

\* The locks exclude as an RwLock does, and a request holds the lock of the
\* negative cache only while it holds the lock of the MemTable.
LockOrder ==
    /\ OuterWriteHeld => OuterReaders = {}
    /\ NcWriteHeld => OuterWriteHeld /\ NcWriters = {} /\ NcReaders = {}
    /\ NcWriters \cup NcReaders \subseteq OuterReaders
    /\ Cardinality(NcWriters) <= 1
    /\ NcWriters # {} => NcReaders = {}

\* C25: the lock of the negative cache is taken only by a request that holds
\* the MemTable lock, never by one waiting for it, and under fair lock
\* scheduling every get, put and delete that arrived returns, releasing both
\* locks.
C25_NoDeadlock ==
    /\ []LockOrder
    /\ \A r \in Readers : (rd[r].pc # "idle") ~> (rd[r].pc = "idle")
    /\ (pc # "idle") ~> (pc = "idle")

\* A get waits for the write lock of the negative cache while another get
\* holds its read lock.
C25_Witness ==
    \E r \in Readers :
        /\ rd[r].pc = "insert"
        /\ NcReaders # {}

====
